---- MODULE Spec2Model ----
(***************************************************************************)
(* The L1 data-availability fee of the Optimism handler of revm:           *)
(* crates/optimism/src/l1block.rs.  L1BlockInfo::try_fetch loads the L1    *)
(* block attributes from the storage of the L1Block contract, and          *)
(* data_gas / calculate_tx_l1_cost compute the fee of a transaction from   *)
(* them under one of the hardforks Bedrock, Regolith, Ecotone and Fjord.   *)
(***************************************************************************)
EXTENDS Integers, Sequences, FiniteSets, TLC

Radix == 256
BYTES == 32

Norm(s) ==
    IF s = <<>> THEN <<>>
    ELSE IF s[Len(s)] # 0 THEN s
    ELSE LET nz == {i \in 1..Len(s) : s[i] # 0}
         IN  IF nz = {} THEN <<>>
             ELSE SubSeq(s, 1, CHOOSE i \in nz : \A j \in nz : j <= i)

RECURSIVE Limbs(_)
Limbs(n) == IF n = 0 THEN <<>> ELSE <<n % Radix>> \o Limbs(n \div Radix)

Limb(a, i) == IF i <= Len(a) THEN a[i] ELSE 0

RECURSIVE SumRange(_, _, _)
SumRange(c, lo, hi) ==
    IF lo > hi THEN 0
    ELSE IF lo = hi THEN c[lo]
    ELSE LET mid == (lo + hi) \div 2
         IN  SumRange(c, lo, mid) + SumRange(c, mid + 1, hi)

\* Carry propagation over the column sums c[lo..hi], carry `cin` coming in:
\* <<digits, carry out>>.
RECURSIVE CarryRange(_, _, _, _)
CarryRange(c, lo, hi, cin) ==
    IF lo = hi
    THEN LET s == c[lo] + cin IN <<(<<s % Radix>>), s \div Radix>>
    ELSE LET mid == (lo + hi) \div 2
             l   == CarryRange(c, lo, mid, cin)
             h   == CarryRange(c, mid + 1, hi, l[2])
         IN  <<(l[1] \o h[1]), h[2]>>

Carry(c) ==
    IF Len(c) = 0 THEN <<>>
    ELSE LET r == CarryRange(c, 1, Len(c), 0) IN Norm(r[1] \o Limbs(r[2]))

Max2(m, n) == IF m >= n THEN m ELSE n
Min2(m, n) == IF m <= n THEN m ELSE n

BigAdd(a, b) == Carry([k \in 1..Max2(Len(a), Len(b)) |-> Limb(a, k) + Limb(b, k)])

\* a * k for a single digit k.
MulSmall(a, k) == IF k = 0 THEN <<>> ELSE Carry([i \in 1..Len(a) |-> a[i] * k])

BigMul(a, b) ==
    IF a = <<>> \/ b = <<>> THEN <<>>
    ELSE IF Len(b) = 1 THEN MulSmall(a, b[1])
    ELSE IF Len(a) = 1 THEN MulSmall(b, a[1])
    ELSE Carry([k \in 1..(Len(a) + Len(b) - 1) |->
                  SumRange([i \in 1..Len(a) |-> a[i] * Limb(b, k - i + 1)],
                           Max2(1, k - Len(b) + 1), Min2(k, Len(a)))])

BigLess(a, b) ==
    IF Len(a) # Len(b) THEN Len(a) < Len(b)
    ELSE \E i \in 1..Len(a) : a[i] < b[i] /\ \A j \in (i + 1)..Len(a) : a[j] = b[j]

BigLeq(a, b) == ~BigLess(b, a)

\* Borrow propagation of a - b over digits lo..hi (a >= b).
RECURSIVE BorrowRange(_, _, _, _, _)
BorrowRange(a, b, lo, hi, bin) ==
    IF lo = hi
    THEN LET s == a[lo] - Limb(b, lo) - bin
         IN  IF s < 0 THEN <<(<<s + Radix>>), 1>> ELSE <<(<<s>>), 0>>
    ELSE LET mid == (lo + hi) \div 2
             l   == BorrowRange(a, b, lo, mid, bin)
             h   == BorrowRange(a, b, mid + 1, hi, l[2])
         IN  <<(l[1] \o h[1]), h[2]>>

BigSub(a, b) == IF a = <<>> THEN <<>> ELSE Norm(BorrowRange(a, b, 1, Len(a), 0)[1])

\* The largest q in lo..q with d * q <= r.
RECURSIVE QuotDigit(_, _, _, _)
QuotDigit(r, d, lo, q) ==
    IF q <= lo THEN lo
    ELSE IF BigLeq(MulSmall(d, q), r) THEN q
    ELSE QuotDigit(r, d, lo, q - 1)

\* One step of long division by d (at least two digits long): the quotient
\* digit of r, which is below d * Radix.  The leading digits of r and d
\* bracket the digit; the exact products decide within the bracket.
DivStep(r, d) ==
    LET n  == Len(d)
        dt == d[n] * Radix + d[n - 1]
        rt == (Limb(r, n + 1) * Radix + Limb(r, n)) * Radix + Limb(r, n - 1)
    IN  QuotDigit(r, d, rt \div (dt + 1), Min2(Radix - 1, (rt + 1) \div dt))

\* Long division of digits hi down to lo of a by d, remainder r coming in
\* from the digits above: <<quotient digits, most significant first, remainder>>.
RECURSIVE DivRange(_, _, _, _, _)
DivRange(a, d, lo, hi, r) ==
    IF lo = hi
    THEN LET r1 == Norm(<<a[lo]>> \o r)
             q  == DivStep(r1, d)
         IN  <<(<<q>>), BigSub(r1, MulSmall(d, q))>>
    ELSE LET mid == (lo + hi) \div 2
             up  == DivRange(a, d, mid + 1, hi, r)
             dn  == DivRange(a, d, lo, mid, up[2])
         IN  <<(up[1] \o dn[1]), dn[2]>>

Reverse(s) == [i \in 1..Len(s) |-> s[Len(s) + 1 - i]]

BigDiv(a, d) ==
    IF Len(a) < Len(d) THEN <<>>
    ELSE Norm(Reverse(DivRange(a, d, 1, Len(a), <<>>)[1]))

MAX == [i \in 1..BYTES |-> Radix - 1]
ZERO == <<>>

\* Faulty variant: the product wraps modulo 2^256 instead of saturating.
wrapping_mul(a, b) ==
    LET p == BigMul(a, b) IN IF Len(p) > BYTES THEN Norm(SubSeq(p, 1, BYTES)) ELSE p

saturating_mul(a, b) ==
    IF a = <<>> \/ b = <<>> THEN <<>>
    ELSE IF Len(a) + Len(b) - 1 > BYTES THEN MAX
    ELSE LET p == BigMul(a, b) IN IF Len(p) > BYTES THEN MAX ELSE p
saturating_add(a, b) == LET s == BigAdd(a, b) IN IF Len(s) > BYTES THEN MAX ELSE s
wrapping_div(a, b) == BigDiv(a, b)

\* The second transaction of OP mainnet block 118024092 (182 bytes).
ECOTONE_TX ==
    << 2, 248, 179, 10, 131, 34, 83, 252, 132, 2, 209, 31, 57, 132, 44, 138, 70, 57, 131, 1,
       56, 128, 148, 220, 111, 244, 77, 93, 147, 44, 189, 119, 181, 46, 86, 18, 186, 5, 41, 220,
       98, 38, 241, 128, 184, 68, 169, 5, 156, 187, 0, 0, 0, 0, 0, 0, 0, 0, 0, 0,
       0, 0, 212, 62, 2, 219, 129, 244, 212, 108, 223, 133, 33, 246, 35, 210, 30, 160, 236, 117,
       98, 165, 0, 0, 0, 0, 0, 0, 0, 0, 0, 0, 0, 0, 0, 0, 0, 0, 0, 0,
       0, 0, 0, 0, 0, 0, 138, 199, 35, 4, 137, 232, 0, 0, 192, 1, 160, 41, 71, 226,
       71, 80, 114, 59, 72, 248, 134, 147, 21, 98, 197, 93, 158, 7, 248, 86, 216, 224, 100, 104,
       231, 25, 117, 94, 24, 187, 195, 165, 112, 160, 120, 77, 169, 206, 89, 253, 119, 84, 234, 91,
       230, 225, 122, 134, 179, 72, 228, 65, 52, 140, 212, 138, 206, 89, 209, 116, 119, 36, 101, 234,
       219, 209 >>

\* The 345-byte transaction of test_calculate_tx_l1_cost_fjord.
FJORD_TEST_TX ==
    << 2, 249, 1, 85, 10, 117, 131, 2, 223, 20, 131, 190, 33, 184, 131, 4, 116, 63, 148, 248,
       14, 81, 175, 182, 19, 215, 100, 250, 97, 117, 26, 255, 211, 49, 60, 25, 10, 134, 187, 135,
       1, 81, 189, 98, 253, 18, 173, 184, 228, 30, 242, 79, 63, 0, 0, 0, 0, 0, 0, 0,
       0, 0, 0, 0, 0, 0, 0, 0, 0, 0, 0, 0, 0, 0, 0, 0, 0, 0, 0, 0,
       0, 0, 0, 0, 110, 0, 0, 0, 0, 0, 0, 0, 0, 0, 0, 0, 0, 175, 136, 208,
       101, 231, 124, 140, 194, 35, 147, 39, 197, 237, 179, 164, 50, 38, 142, 88, 49, 0, 0, 0,
       0, 0, 0, 0, 0, 0, 0, 0, 0, 0, 0, 0, 0, 0, 0, 0, 0, 0, 0, 0,
       0, 0, 0, 0, 0, 0, 3, 193, 229, 0, 0, 0, 0, 0, 0, 0, 0, 0, 0, 0,
       0, 0, 0, 0, 0, 0, 0, 0, 0, 0, 0, 0, 0, 0, 0, 0, 0, 0, 0, 0,
       0, 0, 0, 0, 0, 0, 0, 0, 0, 0, 0, 0, 0, 0, 0, 0, 0, 0, 0, 0,
       0, 0, 0, 0, 0, 0, 0, 0, 0, 0, 0, 0, 160, 0, 0, 0, 0, 0, 0, 0,
       0, 0, 0, 0, 0, 0, 0, 0, 0, 0, 0, 0, 0, 0, 0, 0, 0, 0, 0, 0,
       0, 0, 0, 0, 20, 140, 137, 237, 33, 157, 2, 241, 165, 190, 1, 44, 104, 155, 79, 91,
       115, 24, 39, 190, 190, 0, 0, 0, 0, 0, 0, 0, 0, 0, 0, 0, 0, 192, 1, 160,
       51, 253, 137, 203, 55, 195, 27, 44, 186, 70, 182, 70, 110, 4, 12, 97, 252, 155, 42, 54,
       117, 167, 245, 244, 147, 235, 213, 173, 119, 196, 151, 248, 160, 124, 223, 101, 104, 14, 35, 131,
       146, 105, 48, 25, 180, 9, 47, 97, 2, 34, 231, 27, 124, 236, 6, 68, 156, 185, 34, 185,
       59, 106, 18, 116, 78 >>

U256From(n) == Limbs(n)

(***************************************************************************)
(* Constants of l1block.rs.                                                *)
(***************************************************************************)
ZERO_BYTE_COST == 4
NON_ZERO_BYTE_COST == 16
BASE_FEE_SCALAR_OFFSET == 16
BLOB_BASE_FEE_SCALAR_OFFSET == 20
L1_BASE_FEE_SLOT == 1
L1_OVERHEAD_SLOT == 5
L1_SCALAR_SLOT == 6
ECOTONE_L1_BLOB_BASE_FEE_SLOT == 7
ECOTONE_L1_FEE_SCALARS_SLOT == 3
EMPTY_SCALARS == [i \in 1..8 |-> 0]
L1_BLOCK_CONTRACT == "4200000000000000000000000000000000000015"
DEPOSIT_TRANSACTION_TYPE == 127

(***************************************************************************)
(* The hardforks.  OpSpecId orders them; every Optimism hardfork also      *)
(* enables the Ethereum hardforks it was built on, of which try_fetch asks *)
(* for CANCUN (enabled from Ecotone on).                                   *)
(***************************************************************************)
OpSpecId == {"BEDROCK", "REGOLITH", "ECOTONE", "FJORD"}

Rank(fork) ==
    CASE fork = "BEDROCK"  -> 1
      [] fork = "REGOLITH" -> 2
      [] fork = "CANCUN"   -> 3
      [] fork = "ECOTONE"  -> 3
      [] fork = "FJORD"    -> 4

is_enabled_in(spec_id, fork) == Rank(spec_id) >= Rank(fork)

(***************************************************************************)
(* L1BlockInfo.  An Option<U256> is a record [some, val]; None carries the *)
(* default value zero.                                                     *)
(***************************************************************************)
None == [some |-> FALSE, val |-> ZERO]
Some(v) == [some |-> TRUE, val |-> v]
unwrap_or_default(o) == IF o.some THEN o.val ELSE ZERO

Default ==
    [l1_base_fee             |-> ZERO,
     l1_fee_overhead         |-> None,
     l1_base_fee_scalar      |-> ZERO,
     l1_blob_base_fee        |-> None,
     l1_blob_base_fee_scalar |-> None,
     empty_scalars           |-> FALSE]

(***************************************************************************)
(* The compressed-size estimate of transaction::estimate_tx_compressed_size*)
(* max(minTransactionSize, intercept + fastlzCoef * fastlzSize), scaled by *)
(* 1e6.  flz_compress_len is the length of the FastLZ encoding: an input   *)
(* too short to hold a back-reference is emitted as runs of at most 32     *)
(* literals, one control byte each; the two reference transactions are     *)
(* long enough to compress and have the lengths the tests state.           *)
(***************************************************************************)
MIN_TX_SIZE_SCALED == 100000000
FASTLZ_COEF == 836500
INTERCEPT == 42585600
FJORD_TEST_TX_FASTLZ_SIZE == 202
ECOTONE_TX_FASTLZ_SIZE == 162

literals(r, size) ==
    LET whole == size + 33 * (r \div 32)
        rest  == r % 32
    IN  IF rest # 0 THEN whole + rest + 1 ELSE whole

flz_compress_len(input) ==
    IF input = FJORD_TEST_TX THEN FJORD_TEST_TX_FASTLZ_SIZE
    ELSE IF input = ECOTONE_TX THEN ECOTONE_TX_FASTLZ_SIZE
    ELSE literals(Len(input), 0)

estimate_tx_compressed_size(input) ==
    Max2(MIN_TX_SIZE_SCALED, FASTLZ_COEF * flz_compress_len(input) - INTERCEPT)

(***************************************************************************)
(* The fee calculator: l1block.rs, impl L1BlockInfo.                       *)
(***************************************************************************)
tx_estimated_size_fjord(self, input) == U256From(estimate_tx_compressed_size(input))

ByteCost(byte) == IF byte = 0 THEN ZERO_BYTE_COST ELSE NON_ZERO_BYTE_COST

\* Faulty variant: the 68-byte surcharge is still added once Regolith is active.
data_gas_surcharge_kept(self, input, spec_id) ==
    IF is_enabled_in(spec_id, "FJORD")
    THEN wrapping_div(saturating_mul(tx_estimated_size_fjord(self, input),
                                     U256From(NON_ZERO_BYTE_COST)),
                      U256From(1000000))
    ELSE BigAdd(U256From(SumRange([i \in 1..Len(input) |-> ByteCost(input[i])],
                                  1, Len(input))),
                BigMul(U256From(NON_ZERO_BYTE_COST), U256From(68)))

\* Faulty variant: Fjord still counts the bytes.
data_gas_no_fjord(self, input, spec_id) ==
    LET rollup_data_gas_cost ==
            U256From(SumRange([i \in 1..Len(input) |-> ByteCost(input[i])],
                              1, Len(input)))
    IN  IF ~is_enabled_in(spec_id, "REGOLITH")
        THEN BigAdd(rollup_data_gas_cost,
                    BigMul(U256From(NON_ZERO_BYTE_COST), U256From(68)))
        ELSE rollup_data_gas_cost

data_gas(self, input, spec_id) ==
    IF is_enabled_in(spec_id, "FJORD")
    THEN wrapping_div(saturating_mul(tx_estimated_size_fjord(self, input),
                                     U256From(NON_ZERO_BYTE_COST)),
                      U256From(1000000))
    ELSE LET rollup_data_gas_cost ==
                 U256From(SumRange([i \in 1..Len(input) |-> ByteCost(input[i])],
                                   1, Len(input)))
         IN  IF ~is_enabled_in(spec_id, "REGOLITH")
             THEN BigAdd(rollup_data_gas_cost,
                         BigMul(U256From(NON_ZERO_BYTE_COST), U256From(68)))
             ELSE rollup_data_gas_cost

calculate_l1_fee_scaled_ecotone(self) ==
    LET calldata_cost_per_byte ==
            saturating_mul(saturating_mul(self.l1_base_fee, U256From(NON_ZERO_BYTE_COST)),
                           self.l1_base_fee_scalar)
        blob_cost_per_byte ==
            saturating_mul(unwrap_or_default(self.l1_blob_base_fee),
                           unwrap_or_default(self.l1_blob_base_fee_scalar))
    IN  saturating_add(calldata_cost_per_byte, blob_cost_per_byte)

\* Faulty variant: the multiplications wrap modulo 2^256 instead of saturating.
calculate_tx_l1_cost_bedrock_wrapping(self, input, spec_id) ==
    wrapping_div(
        wrapping_mul(
            wrapping_mul(
                saturating_add(data_gas(self, input, spec_id),
                               unwrap_or_default(self.l1_fee_overhead)),
                self.l1_base_fee),
            self.l1_base_fee_scalar),
        U256From(1000000))

calculate_tx_l1_cost_bedrock(self, input, spec_id) ==
    LET rollup_data_gas_cost == data_gas(self, input, spec_id)
    IN  wrapping_div(
            saturating_mul(
                saturating_mul(
                    saturating_add(rollup_data_gas_cost,
                                   unwrap_or_default(self.l1_fee_overhead)),
                    self.l1_base_fee),
                self.l1_base_fee_scalar),
            U256From(1000000))

\* Faulty variant: the data gas is divided by 16 before the multiplication.
calculate_tx_l1_cost_ecotone_div_first(self, input, spec_id) ==
    IF self.empty_scalars
    THEN calculate_tx_l1_cost_bedrock(self, input, spec_id)
    ELSE wrapping_div(
             saturating_mul(calculate_l1_fee_scaled_ecotone(self),
                            U256From(SumRange([i \in 1..Len(input) |-> ByteCost(input[i])],
                                              1, Len(input)) \div NON_ZERO_BYTE_COST)),
             U256From(1000000))

\* Faulty variant: empty_scalars is not consulted.
calculate_tx_l1_cost_ecotone_no_fallback(self, input, spec_id) ==
    wrapping_div(saturating_mul(calculate_l1_fee_scaled_ecotone(self),
                                data_gas(self, input, spec_id)),
                 U256From(1000000 * NON_ZERO_BYTE_COST))

calculate_tx_l1_cost_ecotone(self, input, spec_id) ==
    IF self.empty_scalars
    THEN calculate_tx_l1_cost_bedrock(self, input, spec_id)
    ELSE LET rollup_data_gas_cost == data_gas(self, input, spec_id)
             l1_fee_scaled == calculate_l1_fee_scaled_ecotone(self)
         IN  wrapping_div(saturating_mul(l1_fee_scaled, rollup_data_gas_cost),
                          U256From(1000000 * NON_ZERO_BYTE_COST))

\* Faulty variant: Fjord keeps the fallback of Ecotone for empty scalars.
calculate_tx_l1_cost_fjord_fallback(self, input) ==
    IF self.empty_scalars
    THEN calculate_tx_l1_cost_bedrock(self, input, "FJORD")
    ELSE wrapping_div(saturating_mul(tx_estimated_size_fjord(self, input),
                                     calculate_l1_fee_scaled_ecotone(self)),
                      BigMul(U256From(1000000), U256From(1000000)))

calculate_tx_l1_cost_fjord(self, input) ==
    \* U256::from(1_000_000_000_000u64), beyond a 32-bit literal
    LET l1_fee_scaled == calculate_l1_fee_scaled_ecotone(self)
        estimated_size == tx_estimated_size_fjord(self, input)
    IN  wrapping_div(saturating_mul(estimated_size, l1_fee_scaled),
                     BigMul(U256From(1000000), U256From(1000000)))

\* Faulty variant: only the empty input is exempt.
calculate_tx_l1_cost_empty_only(self, input, spec_id) ==
    IF input = <<>>
    THEN ZERO
    ELSE IF is_enabled_in(spec_id, "FJORD")
         THEN calculate_tx_l1_cost_fjord(self, input)
    ELSE IF is_enabled_in(spec_id, "ECOTONE")
         THEN calculate_tx_l1_cost_ecotone(self, input, spec_id)
    ELSE calculate_tx_l1_cost_bedrock(self, input, spec_id)

\* Faulty variant: Ecotone is tested before Fjord.
calculate_tx_l1_cost_ecotone_first(self, input, spec_id) ==
    IF input = <<>> \/ input[1] = DEPOSIT_TRANSACTION_TYPE
    THEN ZERO
    ELSE IF is_enabled_in(spec_id, "ECOTONE")
         THEN calculate_tx_l1_cost_ecotone(self, input, spec_id)
    ELSE IF is_enabled_in(spec_id, "FJORD")
         THEN calculate_tx_l1_cost_fjord(self, input)
    ELSE calculate_tx_l1_cost_bedrock(self, input, spec_id)

calculate_tx_l1_cost(self, input, spec_id) ==
    IF input = <<>> \/ input[1] = DEPOSIT_TRANSACTION_TYPE
    THEN ZERO
    ELSE IF is_enabled_in(spec_id, "FJORD")
         THEN calculate_tx_l1_cost_fjord(self, input)
    ELSE IF is_enabled_in(spec_id, "ECOTONE")
         THEN calculate_tx_l1_cost_ecotone(self, input, spec_id)
    ELSE calculate_tx_l1_cost_bedrock(self, input, spec_id)

(***************************************************************************)
(* The loader: L1BlockInfo::try_fetch.  The database answers each call     *)
(* with a value or with an error of its own.                               *)
(***************************************************************************)
to_be_bytes(v) == [i \in 1..BYTES |-> Limb(v, BYTES + 1 - i)]
from_be_slice(bytes) == Norm(Reverse(bytes))
is_zero(v) == v = ZERO

\* bytes[from..to] of Rust: the bytes at offsets from, ..., to - 1.
Slice(bytes, from, to) == SubSeq(bytes, from + 1, to)

Ok(info) == [tag |-> "ok", info |-> info, err |-> "none"]

\* Faulty variant: the error of the database is replaced by an error of the loader.
Err_replaced(e) == [tag |-> "err", info |-> Default, err |-> "LoadError"]

Err(e) == [tag |-> "err", info |-> Default, err |-> e]
NoResult == [tag |-> "none", info |-> Default, err |-> "none"]

\* The Result a database call returns.
DbOk(v) == [tag |-> "ok", value |-> v, err |-> "none"]
DbErr(e) == [tag |-> "err", value |-> ZERO, err |-> e]

BasicCall(address) == [fn |-> "basic", address |-> address, index |-> 0]
StorageCall(address, index) == [fn |-> "storage", address |-> address, index |-> index]

NoFrame ==
    [l1_base_fee |-> ZERO, l1_fee_overhead |-> ZERO,
     l1_blob_base_fee |-> ZERO, l1_fee_scalars |-> to_be_bytes(ZERO)]

\* The record of the pre-Ecotone branch.
BedrockInfo(l1_base_fee, l1_fee_overhead, l1_fee_scalar) ==
    [Default EXCEPT !.l1_base_fee        = l1_base_fee,
                    !.l1_fee_overhead    = Some(l1_fee_overhead),
                    !.l1_base_fee_scalar = l1_fee_scalar]

\* Faulty variant: the blob base fee is not consulted.
IsEmptyScalars_scalars_only(l1_blob_base_fee, l1_fee_scalars) ==
    Slice(l1_fee_scalars, BASE_FEE_SCALAR_OFFSET, BLOB_BASE_FEE_SCALAR_OFFSET + 4)
        = EMPTY_SCALARS

IsEmptyScalars(l1_blob_base_fee, l1_fee_scalars) ==
    /\ is_zero(l1_blob_base_fee)
    /\ Slice(l1_fee_scalars, BASE_FEE_SCALAR_OFFSET, BLOB_BASE_FEE_SCALAR_OFFSET + 4)
         = EMPTY_SCALARS

DecodeBaseFeeScalar(l1_fee_scalars) ==
    from_be_slice(Slice(l1_fee_scalars, BASE_FEE_SCALAR_OFFSET, BASE_FEE_SCALAR_OFFSET + 4))

\* Faulty variant: the blob scalar is read up to the end of the word, through
\* the sequence number.
DecodeBlobBaseFeeScalar_to_end(l1_fee_scalars) ==
    from_be_slice(Slice(l1_fee_scalars, BLOB_BASE_FEE_SCALAR_OFFSET, BYTES))

DecodeBlobBaseFeeScalar(l1_fee_scalars) ==
    from_be_slice(Slice(l1_fee_scalars, BLOB_BASE_FEE_SCALAR_OFFSET,
                        BLOB_BASE_FEE_SCALAR_OFFSET + 4))

\* Faulty variant: the overhead read for empty scalars is dropped.
EcotoneInfo_overhead_dropped(l1_base_fee, l1_blob_base_fee, l1_fee_scalars, l1_fee_overhead) ==
    [l1_base_fee             |-> l1_base_fee,
     l1_base_fee_scalar      |-> DecodeBaseFeeScalar(l1_fee_scalars),
     l1_blob_base_fee        |-> Some(l1_blob_base_fee),
     l1_blob_base_fee_scalar |-> Some(DecodeBlobBaseFeeScalar(l1_fee_scalars)),
     empty_scalars           |-> IsEmptyScalars(l1_blob_base_fee, l1_fee_scalars),
     l1_fee_overhead         |-> None]

\* The record of the Ecotone branch; l1_fee_overhead is the Option read last.
EcotoneInfo(l1_base_fee, l1_blob_base_fee, l1_fee_scalars, l1_fee_overhead) ==
    [l1_base_fee             |-> l1_base_fee,
     l1_base_fee_scalar      |-> DecodeBaseFeeScalar(l1_fee_scalars),
     l1_blob_base_fee        |-> Some(l1_blob_base_fee),
     l1_blob_base_fee_scalar |-> Some(DecodeBlobBaseFeeScalar(l1_fee_scalars)),
     empty_scalars           |-> IsEmptyScalars(l1_blob_base_fee, l1_fee_scalars),
     l1_fee_overhead         |-> l1_fee_overhead]

VARIABLES
    spec_id,        \* the hardfork of the chain
    db,             \* the storage of the L1Block contract: slot -> U256
    pc,             \* where try_fetch stands
    calls,          \* the database calls made so far, in order
    replies,        \* what the database answered to each of them
    frame,          \* the values try_fetch has read
    result,         \* what try_fetch returned
    l1_block_info,  \* the L1BlockInfo of the context
    op,             \* the fee function called last
    input,          \* its transaction bytes
    fork,           \* its spec_id argument
    ret             \* its result

vars == <<spec_id, db, pc, calls, replies, frame, result, l1_block_info,
          op, input, fork, ret>>
loadvars == <<pc, calls, replies, frame, result>>
callvars == <<op, input, fork, ret>>

DbErrors == {"DbErrorA", "DbErrorB"}

\* try_fetch returns r; the context keeps the record of a successful load.
Return(r) ==
    /\ result' = r
    /\ pc' = "done"
    /\ l1_block_info' = IF r.tag = "ok" THEN r.info ELSE l1_block_info

Goto(next) ==
    /\ pc' = next
    /\ UNCHANGED <<result, l1_block_info>>

\* The database answers the call with a value.
Answer(v) == replies' = Append(replies, DbOk(v))

\* The database answers the call with an error: the ? operator returns it.
Propagate(e) ==
    /\ replies' = Append(replies, DbErr(e))
    /\ Return(Err(e))

Touch ==
    /\ pc = "start"
    /\ is_enabled_in(spec_id, "CANCUN")
    /\ calls' = Append(calls, BasicCall(L1_BLOCK_CONTRACT))
    /\ \/ Answer(ZERO) /\ Goto("l1_base_fee")
       \/ \E e \in DbErrors : Propagate(e)
    /\ UNCHANGED <<spec_id, db, frame, callvars>>

ReadBaseFee ==
    /\ \/ pc = "l1_base_fee"
       \/ pc = "start" /\ ~is_enabled_in(spec_id, "CANCUN")
    /\ calls' = Append(calls, StorageCall(L1_BLOCK_CONTRACT, L1_BASE_FEE_SLOT))
    /\ \/ /\ Answer(db[L1_BASE_FEE_SLOT])
          /\ frame' = [frame EXCEPT !.l1_base_fee = db[L1_BASE_FEE_SLOT]]
          /\ Goto(IF ~is_enabled_in(spec_id, "ECOTONE")
                  THEN "l1_fee_overhead" ELSE "l1_blob_base_fee")
       \/ /\ \E e \in DbErrors : Propagate(e)
          /\ UNCHANGED frame
    /\ UNCHANGED <<spec_id, db, callvars>>

ReadOverhead ==
    /\ pc = "l1_fee_overhead"
    /\ calls' = Append(calls, StorageCall(L1_BLOCK_CONTRACT, L1_OVERHEAD_SLOT))
    /\ \/ /\ Answer(db[L1_OVERHEAD_SLOT])
          /\ frame' = [frame EXCEPT !.l1_fee_overhead = db[L1_OVERHEAD_SLOT]]
          /\ Goto("l1_fee_scalar")
       \/ /\ \E e \in DbErrors : Propagate(e)
          /\ UNCHANGED frame
    /\ UNCHANGED <<spec_id, db, callvars>>

ReadScalar ==
    /\ pc = "l1_fee_scalar"
    /\ calls' = Append(calls, StorageCall(L1_BLOCK_CONTRACT, L1_SCALAR_SLOT))
    /\ \/ /\ Answer(db[L1_SCALAR_SLOT])
          /\ Return(Ok(BedrockInfo(frame.l1_base_fee, frame.l1_fee_overhead,
                                   db[L1_SCALAR_SLOT])))
       \/ \E e \in DbErrors : Propagate(e)
    /\ UNCHANGED <<spec_id, db, frame, callvars>>

ReadBlobBaseFee ==
    /\ pc = "l1_blob_base_fee"
    /\ calls' = Append(calls, StorageCall(L1_BLOCK_CONTRACT, ECOTONE_L1_BLOB_BASE_FEE_SLOT))
    /\ \/ /\ Answer(db[ECOTONE_L1_BLOB_BASE_FEE_SLOT])
          /\ frame' = [frame EXCEPT !.l1_blob_base_fee = db[ECOTONE_L1_BLOB_BASE_FEE_SLOT]]
          /\ Goto("l1_fee_scalars")
       \/ /\ \E e \in DbErrors : Propagate(e)
          /\ UNCHANGED frame
    /\ UNCHANGED <<spec_id, db, callvars>>

\* Faulty variant: the overhead slot is read whether or not the scalars are empty.
ReadFeeScalars_then_overhead ==
    /\ pc = "l1_fee_scalars"
    /\ calls' = Append(calls, StorageCall(L1_BLOCK_CONTRACT, ECOTONE_L1_FEE_SCALARS_SLOT))
    /\ \/ /\ Answer(db[ECOTONE_L1_FEE_SCALARS_SLOT])
          /\ frame' = [frame EXCEPT !.l1_fee_scalars =
                                        to_be_bytes(db[ECOTONE_L1_FEE_SCALARS_SLOT])]
          /\ Goto("empty_scalars")
       \/ /\ \E e \in DbErrors : Propagate(e)
          /\ UNCHANGED frame
    /\ UNCHANGED <<spec_id, db, callvars>>

ReadFeeScalars ==
    /\ pc = "l1_fee_scalars"
    /\ calls' = Append(calls, StorageCall(L1_BLOCK_CONTRACT, ECOTONE_L1_FEE_SCALARS_SLOT))
    /\ \/ LET l1_fee_scalars == to_be_bytes(db[ECOTONE_L1_FEE_SCALARS_SLOT])
          IN  /\ Answer(db[ECOTONE_L1_FEE_SCALARS_SLOT])
              /\ frame' = [frame EXCEPT !.l1_fee_scalars = l1_fee_scalars]
              /\ IF IsEmptyScalars(frame.l1_blob_base_fee, l1_fee_scalars)
                 THEN Goto("empty_scalars")
                 ELSE Return(Ok(EcotoneInfo(frame.l1_base_fee, frame.l1_blob_base_fee,
                                            l1_fee_scalars, None)))
       \/ /\ \E e \in DbErrors : Propagate(e)
          /\ UNCHANGED frame
    /\ UNCHANGED <<spec_id, db, callvars>>

ReadOverheadEmptyScalars ==
    /\ pc = "empty_scalars"
    /\ calls' = Append(calls, StorageCall(L1_BLOCK_CONTRACT, L1_OVERHEAD_SLOT))
    /\ \/ /\ Answer(db[L1_OVERHEAD_SLOT])
          /\ frame' = [frame EXCEPT !.l1_fee_overhead = db[L1_OVERHEAD_SLOT]]
          /\ Return(Ok(EcotoneInfo(frame.l1_base_fee, frame.l1_blob_base_fee,
                                   frame.l1_fee_scalars, Some(db[L1_OVERHEAD_SLOT]))))
       \/ /\ \E e \in DbErrors : Propagate(e)
          /\ UNCHANGED frame
    /\ UNCHANGED <<spec_id, db, callvars>>

(***************************************************************************)
(* The fee functions applied to the record of the context.                 *)
(***************************************************************************)
HasInfo == pc = "literal" \/ (pc = "done" /\ result.tag = "ok")

DataGas(tx, s) ==
    /\ HasInfo
    /\ op' = "data_gas"
    /\ input' = tx
    /\ fork' = s
    /\ ret' = data_gas(l1_block_info, tx, s)
    /\ UNCHANGED <<spec_id, db, loadvars, l1_block_info>>

\* Faulty variant: the call takes the record out of the context.
CalculateTxL1Cost_takes_record(tx, s) ==
    /\ HasInfo
    /\ op' = "calculate_tx_l1_cost"
    /\ input' = tx
    /\ fork' = s
    /\ ret' = calculate_tx_l1_cost(l1_block_info, tx, s)
    /\ l1_block_info' = Default
    /\ UNCHANGED <<spec_id, db, loadvars>>

CalculateTxL1Cost(tx, s) ==
    /\ HasInfo
    /\ op' = "calculate_tx_l1_cost"
    /\ input' = tx
    /\ fork' = s
    /\ ret' = calculate_tx_l1_cost(l1_block_info, tx, s)
    /\ UNCHANGED <<spec_id, db, loadvars, l1_block_info>>

(***************************************************************************)
(* The inputs explored.                                                    *)
(***************************************************************************)
MaxLen == 1

Bytes == {0, DEPOSIT_TRANSACTION_TYPE, 250}
FACADE == <<250, 202, 222>>
DEPOSIT_FACADE == <<DEPOSIT_TRANSACTION_TYPE, 250, 202, 222>>
FA00CA00DE == <<250, 0, 202, 0, 222>>

Inputs ==
    UNION {[1..n -> Bytes] : n \in 0..MaxLen}
        \cup {FACADE, DEPOSIT_FACADE, FA00CA00DE, ECOTONE_TX, FJORD_TEST_TX}

E3 == U256From(1000)
HALF == [i \in 1..BYTES |-> IF i = BYTES THEN 128 ELSE 0]
U32MAX == [i \in 1..4 |-> Radix - 1]

\* The L1 attributes of OP mainnet block 118024092 (test calculate_tx_l1_cost_ecotone).
MAINNET_BASE_FEE == BigAdd(BigMul(U256From(47036), U256From(1000000)), U256From(678951))
MAINNET_BLOB_BASE_FEE == BigAdd(BigMul(U256From(57422), U256From(1000000)), U256From(457042))
MAINNET_FEE == BigAdd(BigMul(U256From(7306020), U256From(1000000)), U256From(222001))
MainnetInfo ==
    [Default EXCEPT !.l1_base_fee             = MAINNET_BASE_FEE,
                    !.l1_base_fee_scalar      = U256From(1368),
                    !.l1_blob_base_fee        = Some(MAINNET_BLOB_BASE_FEE),
                    !.l1_blob_base_fee_scalar = Some(U256From(810949))]

\* Records written as struct literals, as the tests of l1block.rs write them.
Literals ==
    [l1_base_fee             : {E3, HALF},
     l1_fee_overhead         : {None, Some(E3), Some(MAX)},
     l1_base_fee_scalar      : {E3, ZERO},
     l1_blob_base_fee        : {None, Some(E3)},
     l1_blob_base_fee_scalar : {None, Some(E3)},
     empty_scalars           : BOOLEAN]
        \cup {MainnetInfo}

\* A word of the packed slot: 16 high bytes, the two 4-byte scalars, and the
\* 8-byte sequence number.
Pad(v, n) == [i \in 1..n |-> Limb(v, n + 1 - i)]
Packed(high, base_fee_scalar, blob_base_fee_scalar, sequence_number) ==
    from_be_slice(Pad(high, 16) \o Pad(base_fee_scalar, 4)
                    \o Pad(blob_base_fee_scalar, 4) \o Pad(sequence_number, 8))

\* The bytes of the word outside the two scalars (16 high bytes, sequence
\* number), and the scalars.
PackedOthers ==
    {<<ZERO, ZERO>>, <<U256From(171), U256From(5)>>,
     <<[i \in 1..16 |-> Radix - 1], [i \in 1..8 |-> Radix - 1]>>}
BaseFeeScalars == {ZERO, U256From(1368), U32MAX}
BlobBaseFeeScalars == {ZERO, U256From(810949), U32MAX}

PackedWords ==
    {Packed(o[1], b, s, o[2]) :
        o \in PackedOthers, b \in BaseFeeScalars, s \in BlobBaseFeeScalars}

Storages ==
    {[slot \in {L1_BASE_FEE_SLOT, ECOTONE_L1_FEE_SCALARS_SLOT, L1_OVERHEAD_SLOT,
                L1_SCALAR_SLOT, ECOTONE_L1_BLOB_BASE_FEE_SLOT} |->
         CASE slot = L1_BASE_FEE_SLOT -> E3
           [] slot = ECOTONE_L1_FEE_SCALARS_SLOT -> w
           [] slot = L1_OVERHEAD_SLOT -> o
           [] slot = L1_SCALAR_SLOT -> E3
           [] slot = ECOTONE_L1_BLOB_BASE_FEE_SLOT -> bl] :
        w \in PackedWords, o \in {U256From(188)}, bl \in {ZERO, E3}}

NoCall ==
    /\ op = "none"
    /\ input = <<>>
    /\ fork = "BEDROCK"
    /\ ret = ZERO

(***************************************************************************)
(* Spec: a block.  try_fetch loads the record from the database, then the  *)
(* fee functions are applied to it under the hardfork of the chain.        *)
(***************************************************************************)
Init ==
    /\ spec_id \in OpSpecId
    /\ db \in Storages
    /\ pc = "start"
    /\ calls = <<>>
    /\ replies = <<>>
    /\ frame = NoFrame
    /\ result = NoResult
    /\ l1_block_info = Default
    /\ NoCall

Next ==
    \/ Touch
    \/ ReadBaseFee
    \/ ReadOverhead
    \/ ReadScalar
    \/ ReadBlobBaseFee
    \/ ReadFeeScalars
    \/ ReadOverheadEmptyScalars
    \/ \E tx \in Inputs : DataGas(tx, spec_id)
    \/ \E tx \in Inputs : CalculateTxL1Cost(tx, spec_id)

Spec == Init /\ [][Next]_vars

(***************************************************************************)
(* SpecCalc: one fee function applied once to a record written as a struct *)
(* literal, under any hardfork.                                            *)
(***************************************************************************)
InitCalc ==
    /\ spec_id = "BEDROCK"
    /\ db = [slot \in {L1_BASE_FEE_SLOT} |-> ZERO]
    /\ pc = "literal"
    /\ calls = <<>>
    /\ replies = <<>>
    /\ frame = NoFrame
    /\ result = NoResult
    /\ l1_block_info \in Literals
    /\ NoCall

NextCalc ==
    /\ op = "none"
    /\ \/ \E tx \in Inputs, s \in OpSpecId : DataGas(tx, s)
       \/ \E tx \in Inputs, s \in OpSpecId : CalculateTxL1Cost(tx, s)

SpecCalc == InitCalc /\ [][NextCalc]_vars

(***************************************************************************)
(* SpecCost: calculate_tx_l1_cost applied once to a record written as a    *)
(* struct literal, under any hardfork.                                     *)
(***************************************************************************)
NextCost ==
    /\ op = "none"
    /\ \E tx \in Inputs, s \in OpSpecId : CalculateTxL1Cost(tx, s)

SpecCost == InitCalc /\ [][NextCost]_vars

(***************************************************************************)
(* The properties.  They state the expected value of a call from the       *)
(* arguments of the call, with the exact product and sum clamped to MAX    *)
(* and with q = floor(x / d) stated as q * d <= x < (q + 1) * d.           *)
(***************************************************************************)
IsCost == op = "calculate_tx_l1_cost"
IsGas == op = "data_gas"
Exempt(tx) == tx = <<>> \/ tx[1] = 127
Clamp(x) == IF BigLess(MAX, x) THEN MAX ELSE x
SatMul(a, b) == Clamp(BigMul(a, b))
SatAdd(a, b) == Clamp(BigAdd(a, b))
IsFloorDiv(q, x, d) ==
    /\ BigLeq(BigMul(q, d), x)
    /\ BigLess(x, BigMul(BigAdd(q, U256From(1)), d))
Value(o) == IF o.some THEN o.val ELSE ZERO
ZeroBytes(tx) == Cardinality({i \in 1..Len(tx) : tx[i] = 0})
\* 4 per zero byte, 16 per non-zero byte.
ByteGas(tx) == 4 * ZeroBytes(tx) + 16 * (Len(tx) - ZeroBytes(tx))
LegacyFeeOf(info, gas) ==
    SatMul(SatMul(BigAdd(gas, Value(info.l1_fee_overhead)), info.l1_base_fee),
           info.l1_base_fee_scalar)
FeeScaledOf(info) ==
    SatAdd(SatMul(SatMul(info.l1_base_fee, U256From(16)), info.l1_base_fee_scalar),
           SatMul(Value(info.l1_blob_base_fee), Value(info.l1_blob_base_fee_scalar)))
Million == U256From(1000000)
\* The record of test_calculate_tx_l1_cost.
RegolithTestInfo ==
    [Default EXCEPT !.l1_base_fee = E3, !.l1_fee_overhead = Some(E3),
                    !.l1_base_fee_scalar = E3]
\* The record of test_calculate_tx_l1_cost_fjord.
FjordTestInfo ==
    [Default EXCEPT !.l1_base_fee = E3, !.l1_base_fee_scalar = E3,
                    !.l1_blob_base_fee = Some(E3), !.l1_blob_base_fee_scalar = Some(E3)]
\* The record of test_calculate_tx_l1_cost_ecotone.
EcotoneTestInfo == [FjordTestInfo EXCEPT !.l1_fee_overhead = Some(E3)]

\* C1: calculate_tx_l1_cost returns zero for an empty input and for an input
\* whose first byte is 0x7F, under every hardfork and for every record.
C1_ExemptInputCostsZero ==
    (IsCost /\ Exempt(input)) => ret = ZERO

C1_Witness ==
    /\ IsCost /\ fork = "FJORD" /\ input = DEPOSIT_FACADE /\ ret = ZERO
    /\ l1_block_info = FjordTestInfo

\* C2: under Bedrock or Regolith the cost of a non-exempt input is
\* floor(satmul(satmul(data_gas + l1_fee_overhead, l1_base_fee), l1_base_fee_scalar) / 1e6),
\* data_gas being the per-byte sum plus 1088 under Bedrock; 1048 in the test's case.
C2_LegacyFormula ==
    (IsCost /\ ~Exempt(input) /\ fork \in {"BEDROCK", "REGOLITH"}) =>
        /\ IsFloorDiv(ret,
                      LegacyFeeOf(l1_block_info,
                                  U256From(ByteGas(input)
                                           + (IF fork = "BEDROCK" THEN 16 * 68 ELSE 0))),
                      Million)
        /\ (l1_block_info = RegolithTestInfo /\ input = FACADE /\ fork = "REGOLITH")
               => ret = U256From(1048)

C2_Witness ==
    /\ IsCost /\ fork = "REGOLITH" /\ input = FACADE
    /\ l1_block_info = RegolithTestInfo /\ ret = U256From(1048)

\* C3: under Ecotone with empty_scalars false the cost of a non-exempt input is
\* floor(satmul(l1_fee_scaled, data_gas) / 16e6), l1_fee_scaled =
\* satadd(satmul(satmul(l1_base_fee, 16), l1_base_fee_scalar),
\*        satmul(l1_blob_base_fee, l1_blob_base_fee_scalar)),
\* data_gas the per-byte sum: the division by 16 comes after the multiplication.
C3_EcotoneFormula ==
    (IsCost /\ ~Exempt(input) /\ fork = "ECOTONE" /\ ~l1_block_info.empty_scalars) =>
        /\ IsFloorDiv(ret,
                      SatMul(FeeScaledOf(l1_block_info), U256From(ByteGas(input))),
                      U256From(16000000))
        /\ (l1_block_info = EcotoneTestInfo /\ input = FACADE) => ret = U256From(51)
        /\ (l1_block_info = MainnetInfo /\ input = ECOTONE_TX) => ret = MAINNET_FEE

\* One zero byte is 4 gas: 4 * 17e6 / 16e6 = 4, where 4 / 16 taken first gives 0.
C3_Witness ==
    /\ IsCost /\ fork = "ECOTONE" /\ input = <<0>>
    /\ l1_block_info = FjordTestInfo /\ ret = U256From(4)

\* C4: with Fjord active the cost of a non-exempt input is
\* floor(satmul(estimate(input), l1_fee_scaled) / 1e12), l1_fee_scaled as under
\* Ecotone, whatever empty_scalars and l1_fee_overhead are: Fjord comes first.
C4_FjordFormula ==
    (IsCost /\ ~Exempt(input) /\ fork = "FJORD") =>
        /\ IsFloorDiv(ret,
                      SatMul(U256From(estimate_tx_compressed_size(input)),
                             FeeScaledOf(l1_block_info)),
                      BigMul(Million, Million))
        /\ (l1_block_info = FjordTestInfo /\ input = FACADE) => ret = U256From(1700)
        /\ (l1_block_info = FjordTestInfo /\ input = FJORD_TEST_TX) => ret = U256From(2148)

C4_Witness ==
    /\ IsCost /\ fork = "FJORD" /\ input = FJORD_TEST_TX
    /\ l1_block_info = [EcotoneTestInfo EXCEPT !.empty_scalars = TRUE]
    /\ ret = U256From(2148)

\* C5: with Fjord active, records that agree on l1_base_fee, l1_base_fee_scalar,
\* l1_blob_base_fee and l1_blob_base_fee_scalar have the same cost for the same
\* input, whatever their l1_fee_overhead and empty_scalars.
C5_FjordIgnoresOverhead ==
    (IsCost /\ fork = "FJORD") =>
        \A o \in {None, Some(ZERO), Some(E3), Some(MAX)}, e \in BOOLEAN :
            calculate_tx_l1_cost([l1_block_info EXCEPT !.l1_fee_overhead = o,
                                                       !.empty_scalars = e],
                                 input, fork) = ret

C5_Witness ==
    /\ IsCost /\ fork = "FJORD" /\ input = FACADE /\ ret = U256From(1700)
    /\ l1_block_info.empty_scalars
    /\ l1_block_info.l1_fee_overhead = Some(MAX)

\* C6: under Ecotone a record with empty_scalars set costs what the legacy
\* formula gives for its l1_base_fee, l1_base_fee_scalar and l1_fee_overhead with
\* the per-byte data gas (no 68-byte surcharge); the blob fields do not matter.
C6_EmptyScalarsIsLegacy ==
    (IsCost /\ ~Exempt(input) /\ fork = "ECOTONE" /\ l1_block_info.empty_scalars) =>
        /\ IsFloorDiv(ret, LegacyFeeOf(l1_block_info, U256From(ByteGas(input))), Million)
        /\ \A b \in {None, Some(E3), Some(MAX)}, s \in {None, Some(E3), Some(MAX)} :
               calculate_tx_l1_cost([l1_block_info EXCEPT !.l1_blob_base_fee = b,
                                                          !.l1_blob_base_fee_scalar = s],
                                    input, fork) = ret

C6_Witness ==
    /\ IsCost /\ fork = "ECOTONE" /\ input = FACADE
    /\ l1_block_info = [EcotoneTestInfo EXCEPT !.empty_scalars = TRUE]
    /\ ret = U256From(1048)

\* C7: before Fjord data_gas is 4 per zero byte plus 16 per non-zero byte, plus
\* 16 * 68 = 1088 exactly when Regolith is not active, so that Bedrock exceeds
\* Regolith by 1088 on every input; no field of the record matters.
C7_DataGasPerByte ==
    (IsGas /\ fork \in {"BEDROCK", "REGOLITH", "ECOTONE"}) =>
        /\ ret = U256From(ByteGas(input) + (IF fork = "BEDROCK" THEN 1088 ELSE 0))
        /\ fork = "BEDROCK" =>
               ret = BigAdd(data_gas(l1_block_info, input, "REGOLITH"), U256From(68 * 16))
        /\ \A info \in {Default, MainnetInfo, [l1_block_info EXCEPT !.empty_scalars = TRUE]} :
               data_gas(info, input, fork) = ret
        /\ (input = FACADE /\ fork = "REGOLITH") => ret = U256From(48)
        /\ (input = FA00CA00DE /\ fork = "BEDROCK") => ret = U256From(1144)
        /\ (input = ECOTONE_TX /\ fork = "ECOTONE") => ret = U256From(2456)

C7_Witness ==
    IsGas /\ fork = "BEDROCK" /\ input = FA00CA00DE /\ ret = U256From(1144)

\* C8: with Fjord active data_gas is floor(estimate(input) * 16 / 1e6), whatever
\* the bytes are, and at least 1600 because the estimate is at least 100,000,000:
\* the 3-byte and the 5-byte payload of the tests both give 1600.
C8_DataGasFjord ==
    (IsGas /\ fork = "FJORD") =>
        /\ IsFloorDiv(ret,
                      BigMul(U256From(estimate_tx_compressed_size(input)), U256From(16)),
                      Million)
        /\ BigLeq(U256From(1600), ret)
        /\ input \in {FACADE, FA00CA00DE} => ret = U256From(1600)

C8_Witness ==
    IsGas /\ fork = "FJORD" /\ input = FA00CA00DE /\ ret = U256From(1600)

\* Bytes 16..24 of a 32-byte big-endian word are its digits 9..16.
ScalarBytesZero(word) == \A j \in 9..16 : Limb(word, j) = 0

\* C9: a successful load from Ecotone on has empty_scalars set exactly when the
\* word of slot 7 is zero and bytes 16..24 of the word of slot 3 are all zero; a
\* successful load before Ecotone never has it set.
C9_EmptyScalarsIff ==
    result.tag = "ok" =>
        IF is_enabled_in(spec_id, "ECOTONE")
        THEN result.info.empty_scalars <=> (db[7] = ZERO /\ ScalarBytesZero(db[3]))
        ELSE ~result.info.empty_scalars

\* The blob base fee is zero and so is the blob scalar, but not the base-fee scalar.
C9_Witness ==
    /\ result.tag = "ok" /\ spec_id = "ECOTONE"
    /\ db[7] = ZERO /\ ~ScalarBytesZero(db[3]) /\ \A j \in 9..12 : Limb(db[3], j) = 0
    /\ ~result.info.empty_scalars

Failed(i) == replies[i].tag = "err"

\* C11: when a database call of a load fails, whichever call it is, the load
\* returns the error of that call unchanged and no record; a load that returns
\* a record has had every one of its calls answered with a value.
C11_ErrorPropagates ==
    /\ Len(replies) = Len(calls)
    /\ (\E i \in 1..Len(replies) : Failed(i)) =>
          /\ result.tag = "err"
          /\ result.err = replies[Len(replies)].err
          /\ result.err \in DbErrors
          /\ result.info = Default
          /\ l1_block_info = Default
    /\ result.tag = "err" => Failed(Len(replies))
    /\ result.tag = "ok" => \A i \in 1..Len(replies) : ~Failed(i)

\* The last read of a load with empty scalars fails, after four calls that succeeded.
C11_Witness ==
    /\ result.tag = "err" /\ result.err = "DbErrorB"
    /\ Len(calls) = 5 /\ Failed(5) /\ replies[5].err = "DbErrorB"
    /\ \A i \in 1..4 : ~Failed(i)

\* 256^k, and the number whose 32 big-endian bytes are the 16 bytes of high,
\* the 4 of b, the 4 of s and the 8 of n.
Pow256(k) == [i \in 1..k + 1 |-> IF i = k + 1 THEN 1 ELSE 0]
WordOf(high, b, s, n) ==
    BigAdd(BigAdd(BigMul(high, Pow256(16)), BigMul(b, Pow256(12))),
           BigAdd(BigMul(s, Pow256(8)), n))

\* C12: a load from Ecotone on decodes the word of slot 3 holding b at bytes
\* 16..20 and s at bytes 20..24 into l1_base_fee_scalar = b and
\* l1_blob_base_fee_scalar = s, both below 2^32, whatever the other 24 bytes are.
\* Stated of the record at the return of the load, before any fee call.
C12_DecodeRoundTrip ==
    (result.tag = "ok" /\ op = "none" /\ spec_id \in {"ECOTONE", "FJORD"}) =>
        /\ \E o \in PackedOthers, b \in BaseFeeScalars, s \in BlobBaseFeeScalars :
               db[3] = WordOf(o[1], b, s, o[2])
        /\ \A o \in PackedOthers, b \in BaseFeeScalars, s \in BlobBaseFeeScalars :
               db[3] = WordOf(o[1], b, s, o[2]) =>
                   /\ result.info.l1_base_fee_scalar = b
                   /\ result.info.l1_blob_base_fee_scalar = Some(s)
                   /\ BigLess(b, Pow256(4)) /\ BigLess(s, Pow256(4))
                   /\ \A o2 \in PackedOthers :
                          LET bytes == to_be_bytes(WordOf(o2[1], b, s, o2[2]))
                          IN  /\ DecodeBaseFeeScalar(bytes) = b
                              /\ DecodeBlobBaseFeeScalar(bytes) = s

\* Every byte outside 16..24 is 255, and the scalars are 1368 and 810949.
C12_Witness ==
    /\ result.tag = "ok" /\ op = "none" /\ spec_id = "ECOTONE"
    /\ \A j \in (1..8) \cup (17..32) : Limb(db[3], j) = 255
    /\ result.info.l1_base_fee_scalar = U256From(1368)
    /\ result.info.l1_blob_base_fee_scalar = Some(U256From(810949))

\* C13: the fee functions leave the record as the loader produced it: after any
\* number of calls the record of the context is the one try_fetch returned, and
\* the result of the last call is the fee of that record for its input and hardfork.
C13_RecordUnchanged ==
    (pc = "done" /\ result.tag = "ok") =>
        /\ l1_block_info = result.info
        /\ IsCost => ret = calculate_tx_l1_cost(result.info, input, fork)
        /\ IsGas => ret = data_gas(result.info, input, fork)

\* A fee has been charged for the mainnet transaction on a loaded record.
C13_Witness ==
    /\ pc = "done" /\ result.tag = "ok" /\ spec_id = "ECOTONE"
    /\ IsCost /\ input = ECOTONE_TX /\ ret # ZERO
    /\ l1_block_info = result.info /\ ~result.info.empty_scalars

\* The calls of a complete load, as <<function, slot>> pairs.
TouchOrder == IF spec_id \in {"ECOTONE", "FJORD"} THEN << <<"basic", 0>> >> ELSE <<>>
SlotOrder ==
    IF spec_id \in {"BEDROCK", "REGOLITH"} THEN <<1, 5, 6>>
    ELSE IF db[7] = ZERO /\ ScalarBytesZero(db[3]) THEN <<1, 7, 3, 5>>
    ELSE <<1, 7, 3>>
CallOrder == TouchOrder \o [i \in 1..Len(SlotOrder) |-> <<"storage", SlotOrder[i]>>]

\* C14: the calls of a load are a prefix of: the touch of the contract (from
\* Ecotone on only), slot 1, then slots 5 and 6 before Ecotone, or slots 7 and 3
\* from Ecotone on, followed by slot 5 when the scalars are empty.  A load that
\* returns a record has made all of them; every call names the L1Block
\* contract; only the last call can have failed; no slot is read twice.
C14_CallOrder ==
    /\ Len(calls) <= Len(CallOrder)
    /\ \A i \in 1..Len(calls) :
          /\ calls[i].fn = CallOrder[i][1]
          /\ calls[i].index = CallOrder[i][2]
          /\ calls[i].address = "4200000000000000000000000000000000000015"
          /\ Failed(i) => i = Len(calls)
    /\ \A i, j \in 1..Len(calls) :
          (i # j /\ calls[i].fn = "storage" /\ calls[j].fn = "storage") =>
              calls[i].index # calls[j].index
    /\ result.tag = "ok" => Len(calls) = Len(CallOrder)

\* A Fjord load with empty scalars: touch, 1, 7, 3, 5.
C14_Witness ==
    /\ result.tag = "ok" /\ spec_id = "FJORD"
    /\ Len(calls) = 5 /\ calls[1].fn = "basic" /\ calls[5].index = 5

\* The values a field is raised to, and the divisor of the formula a call takes.
Raised == {E3, HALF, MAX}
RaisedFrom(v) == {w \in Raised : BigLeq(v, w)}
Divisor ==
    IF fork = "FJORD" THEN BigMul(Million, Million)
    ELSE IF fork = "ECOTONE" /\ ~l1_block_info.empty_scalars
         THEN BigMul(U256From(16), Million)
    ELSE Million
CostOf(info) == calculate_tx_l1_cost(info, input, fork)

\* C15: for a non-exempt input, raising one of l1_base_fee, l1_base_fee_scalar,
\* l1_blob_base_fee, l1_blob_base_fee_scalar or l1_fee_overhead and keeping the
\* others never lowers the cost, and the cost is at most floor(MAX / divisor),
\* the divisor being 1e6, 16e6 or 1e12 as the formula has it.
C15_MonotoneAndBounded ==
    (IsCost /\ ~Exempt(input)) =>
        LET info == l1_block_info
        IN  /\ BigLeq(BigMul(ret, Divisor), MAX)
            /\ \A w \in RaisedFrom(info.l1_base_fee) :
                   BigLeq(ret, CostOf([info EXCEPT !.l1_base_fee = w]))
            /\ \A w \in RaisedFrom(info.l1_base_fee_scalar) :
                   BigLeq(ret, CostOf([info EXCEPT !.l1_base_fee_scalar = w]))
            /\ \A w \in RaisedFrom(Value(info.l1_blob_base_fee)) :
                   BigLeq(ret, CostOf([info EXCEPT !.l1_blob_base_fee = Some(w)]))
            /\ \A w \in RaisedFrom(Value(info.l1_blob_base_fee_scalar)) :
                   BigLeq(ret, CostOf([info EXCEPT !.l1_blob_base_fee_scalar = Some(w)]))
            /\ \A w \in RaisedFrom(Value(info.l1_fee_overhead)) :
                   BigLeq(ret, CostOf([info EXCEPT !.l1_fee_overhead = Some(w)]))

\* The Ecotone fee of a record whose base fee makes the products saturate: it
\* is floor(MAX / 16e6).
C15_Witness ==
    /\ IsCost /\ fork = "ECOTONE" /\ input = FACADE
    /\ l1_block_info.l1_base_fee = HALF /\ l1_block_info.l1_base_fee_scalar = E3
    /\ ~l1_block_info.empty_scalars
    /\ IsFloorDiv(ret, MAX, BigMul(U256From(16), Million))
====
